---- MODULE Spec2Model ----
(***************************************************************************)
(* The per-user transactional log engine of src/server/db.js: the write    *)
(* path (putTransaction / rollbackTransaction and the handlers that call   *)
(* them), the tail read (queryTransactionLog) and the bundle path (the     *)
(* bundle lock handlers and bundleTransactionLog).                         *)
(*                                                                         *)
(* db.js keys every call by res.locals.userId and no operation touches two *)
(* users, so the state below is the state of one user.  An async function  *)
(* is cut at its awaits: the code between two awaits runs without          *)
(* interleaving (one JavaScript event loop), so it is one action.          *)
(* A sequence number k is kept at index k+1 of the sequences below.        *)
(***************************************************************************)
EXTENDS Integers, Sequences, FiniteSets, TLC

\* ------------------------------------------------------------ constants

ONE_KB == 1024
FOUR_HUNDRED_KB == 400 * ONE_KB
ONE_MB == ONE_KB * 1024
BATCH_SIZE_LIMIT == 10 * ONE_MB
MAX_DELETIONS == 100

\* Bounds of the model.
MaxTx == 3          \* putTransaction calls (slots of the log), write path alone
MaxReq == 2         \* write requests received, write path alone
MaxBatch == 2       \* items of a batch that is small enough to be processed
MaxTxB == 1         \* putTransaction calls, beside the bundle path
MaxReqB == 1        \* write requests received, beside the bundle path
MaxTail == 3        \* inserts that persist, beside the bundle path
MaxUploads == 2     \* bundleTransactionLog calls
MaxBundleSeqNo == 2 \* largest bundle sequence number a client proposes
MaxLockCalls == 3   \* acquireBundleTransactionLogLock calls
MaxRollbackTx == 2  \* putTransaction calls, beside second runs of the rollback

\* Inputs the handlers are given.
ItemIds == {"", "a"}                              \* "" is a missing item id
ReadableLengths == {1, FOUR_HUNDRED_KB + 1}       \* of a single request

NoItem == [command |-> "none"]

\* ------------------------------------------------------------ memcache

\* The entry pushTransaction appends for tx; its sequence number is the
\* length of the log before the push.
pushTransaction(l, tx) ==
  Append(l, [itemId |-> tx.itemId, command |-> tx.command,
             record |-> tx.record, state |-> "Pending"])

transactionPersistedToDdb(l, seqNo) ==
  [l EXCEPT ![seqNo + 1].state = "Committed"]

transactionRolledBack(l, seqNo) ==
  [l EXCEPT ![seqNo + 1].state = "RolledBack",
            ![seqNo + 1].command = "rollback"]

getStartingSeqNo(bundleSeqNo) ==
  IF bundleSeqNo = 0 THEN 0 ELSE bundleSeqNo + 1

\* getTransactions without the filter on the state of the entries.
getTransactions_unfiltered(l, startingSeqNo) ==
  LET F[i \in 0..Len(l)] ==
        IF i = 0 THEN <<>>
        ELSE IF i - 1 >= startingSeqNo
             THEN Append(F[i - 1],
                         [sequenceNo |-> i - 1, itemId |-> l[i].itemId,
                          command |-> l[i].command, record |-> l[i].record])
             ELSE F[i - 1]
  IN F[Len(l)]

getTransactions(l, startingSeqNo) ==
  LET F[i \in 0..Len(l)] ==
        IF i = 0 THEN <<>>
        ELSE IF i - 1 >= startingSeqNo /\ l[i].state = "Committed"
             THEN Append(F[i - 1],
                         [sequenceNo |-> i - 1, itemId |-> l[i].itemId,
                          command |-> l[i].command, record |-> l[i].record])
             ELSE F[i - 1]
  IN F[Len(l)]

\* ------------------------------------------------------------ state

VARIABLES
  log,             \* memcache: the user's transaction array
  memBundleSeqNo,  \* memcache: the user's bundle watermark
  ddb,             \* transactions table: the item at (userId, sequence-no)
  puts,            \* one record per putTransaction call, by sequence number
  reqs,            \* the write requests received and their responses
  userBundleSeqNo, \* users table: the user's bundle-seq-no
  s3,              \* blob store: the bundle sequence numbers that have a blob
  lock,            \* lock module: the user's lock
  lockCalls,       \* the responses of the acquire calls, in order
  uploads          \* one record per bundleTransactionLog call

vars == <<log, memBundleSeqNo, ddb, puts, reqs, userBundleSeqNo, s3, lock,
          lockCalls, uploads>>

writeVars == <<log, ddb, puts, reqs>>
bundleVars == <<memBundleSeqNo, userBundleSeqNo, s3, lock, lockCalls, uploads>>

NoLock == [lockId |-> 0, live |-> FALSE]

Init ==
  /\ log = <<>>
  /\ memBundleSeqNo = 0
  /\ ddb = <<>>
  /\ puts = <<>>
  /\ reqs = <<>>
  /\ userBundleSeqNo = 0
  /\ s3 = {}
  /\ lock = NoLock
  /\ lockCalls = <<>>
  /\ uploads = <<>>

\* ------------------------------------------------------------ write path

\* The item putTransaction / rollbackTransaction write for sequence number k.
Item(tx) == [itemId |-> tx.itemId, command |-> tx.command, record |-> tx.record]
RollbackItem(tx) == [itemId |-> tx.itemId, command |-> "rollback", record |-> 0]

RECURSIVE PushAll(_, _)
PushAll(l, txs) ==
  IF txs = <<>> THEN l ELSE PushAll(pushTransaction(l, Head(txs)), Tail(txs))

\* putTransaction with the sequence numbers of a batch given in the reverse
\* of the input order.
putTransaction_reversed(txs, r) ==
  /\ log' = PushAll(log, txs)
  /\ ddb' = ddb \o [i \in 1..Len(txs) |-> NoItem]
  /\ puts' = puts \o [i \in 1..Len(txs) |->
                        [pc |-> "put", tx |-> txs[i],
                         seqNo |-> Len(log) + Len(txs) - i,
                         insW |-> "flight", rbW |-> "none", req |-> r,
                         res |-> "none", returned |-> -1, rb |-> "none",
                         rbW2 |-> "none", rb2 |-> "none"]]

\* putTransaction up to its await, for each transaction of txs in order:
\* pushTransaction allocates the slot and returns the transaction with its
\* sequence number (seqNo), and the conditional put is sent.  r is the request
\* the calls belong to; res and returned are what the call settles with, rb
\* how its rollback ended; rbW2 and rb2 are the write and the end of a second
\* run of rollbackTransaction on the transaction.
putTransaction(txs, r) ==
  /\ log' = PushAll(log, txs)
  /\ ddb' = ddb \o [i \in 1..Len(txs) |-> NoItem]
  /\ puts' = puts \o [i \in 1..Len(txs) |->
                        [pc |-> "put", tx |-> txs[i], seqNo |-> Len(log) + i - 1,
                         insW |-> "flight", rbW |-> "none", req |-> r,
                         res |-> "none", returned |-> -1, rb |-> "none",
                         rbW2 |-> "none", rb2 |-> "none"]]

\* A request: its putTransaction calls are puts[first + 1 .. first + count];
\* resp is the answer sent, sequenceNos the numbers sent with 'OK'.
Request(h, n, resp) ==
  [first |-> Len(log), count |-> n, resp |-> resp, sequenceNos |-> <<>>]

\* A handler that answers 400 before it does anything else.
BadRequest(h) ==
  /\ reqs' = Append(reqs, Request(h, 0, "Bad Request"))
  /\ UNCHANGED <<log, ddb, puts>>

Single(h, tx) ==
  /\ putTransaction(<<tx>>, Len(reqs) + 1)
  /\ reqs' = Append(reqs, Request(h, 1, "pending"))

insert(itemId, readableLength) ==
  /\ IF readableLength > FOUR_HUNDRED_KB THEN BadRequest("insert")
     ELSE IF itemId = "" THEN BadRequest("insert")
     ELSE Single("insert", [itemId |-> itemId, command |-> "Insert",
                            record |-> readableLength])
  /\ UNCHANGED bundleVars

delete(itemId) ==
  /\ IF itemId = "" THEN BadRequest("delete")
     ELSE Single("delete", [itemId |-> itemId, command |-> "Delete",
                            record |-> 0])
  /\ UNCHANGED bundleVars

update(itemId, readableLength) ==
  /\ IF readableLength > FOUR_HUNDRED_KB THEN BadRequest("update")
     ELSE IF itemId = "" THEN BadRequest("update")
     ELSE Single("update", [itemId |-> itemId, command |-> "Update",
                            record |-> readableLength])
  /\ UNCHANGED bundleVars

\* The callback batchInsert and batchUpdate give to map: an item that fails a
\* check answers 400 and returns from the callback only, so the map goes on to
\* the next item; a second answer on the same response throws (the headers are
\* sent), which ends the map.  acc is [txs, sent, threw].
ItemInvalid(m) ==
  \/ m.byteLength = 0
  \/ m.byteLength > FOUR_HUNDRED_KB
  \/ m.itemId = ""

RECURSIVE MapItems(_, _, _)
MapItems(items, command, acc) ==
  IF items = <<>> THEN acc
  ELSE IF ItemInvalid(Head(items))
       THEN IF acc.sent THEN [acc EXCEPT !.threw = TRUE]
            ELSE MapItems(Tail(items), command, [acc EXCEPT !.sent = TRUE])
       ELSE MapItems(Tail(items), command,
                     [acc EXCEPT !.txs = Append(@,
                        [itemId |-> Head(items).itemId, command |-> command,
                         record |-> Head(items).byteLength])])

Batch(h, command, itemsMetadata, readableLength) ==
  /\ IF readableLength > BATCH_SIZE_LIMIT THEN BadRequest(h)
     ELSE IF Len(itemsMetadata) = 0 THEN BadRequest(h)
     ELSE LET m == MapItems(itemsMetadata, command,
                            [txs |-> <<>>, sent |-> FALSE, threw |-> FALSE])
          IN /\ putTransaction(m.txs, Len(reqs) + 1)
             /\ reqs' = Append(reqs,
                   Request(h, Len(m.txs),
                           IF m.sent THEN "Bad Request" ELSE "pending"))
  /\ UNCHANGED bundleVars

batchInsert(itemsMetadata, readableLength) ==
  Batch("batchInsert", "Insert", itemsMetadata, readableLength)

batchUpdate(updatedItemsMetadata, readableLength) ==
  Batch("batchUpdate", "Update", updatedItemsMetadata, readableLength)

\* nItems is itemIds.length; itemIds is given for a batch small enough to be
\* processed.
batchDelete(nItems, itemIds) ==
  /\ IF nItems = 0 THEN BadRequest("batchDelete")
     ELSE IF nItems > MAX_DELETIONS THEN BadRequest("batchDelete")
     ELSE /\ nItems = Len(itemIds)
          /\ putTransaction([i \in 1..nItems |->
                               [itemId |-> itemIds[i], command |-> "Delete",
                                record |-> 0]], Len(reqs) + 1)
          /\ reqs' = Append(reqs, Request("batchDelete", nItems, "pending"))
  /\ UNCHANGED bundleVars

\* ---- the table's side of a put: the write reaches the store and its
\* condition is evaluated there, whatever the client is told and when.

\* ddbPutTransaction without the ConditionExpression.
ddbPutTransaction_unconditional(k) ==
  /\ puts[k].insW = "flight"
  /\ ddb' = [ddb EXCEPT ![k] = Item(puts[k].tx)]
  /\ puts' = [puts EXCEPT ![k].insW = "applied"]
  /\ UNCHANGED <<log, reqs, bundleVars>>

\* ConditionExpression 'attribute_not_exists(#userId)'
ddbPutTransaction(k) ==
  /\ puts[k].insW = "flight"
  /\ IF ddb[k] = NoItem
     THEN /\ ddb' = [ddb EXCEPT ![k] = Item(puts[k].tx)]
          /\ puts' = [puts EXCEPT ![k].insW = "applied"]
     ELSE /\ ddb' = ddb
          /\ puts' = [puts EXCEPT ![k].insW = "rejected"]
  /\ UNCHANGED <<log, reqs, bundleVars>>

\* ddbRollbackTransaction without the ConditionExpression.
ddbRollbackTransaction_unconditional(k) ==
  /\ puts[k].rbW = "flight"
  /\ ddb' = [ddb EXCEPT ![k] = RollbackItem(puts[k].tx)]
  /\ puts' = [puts EXCEPT ![k].rbW = "applied"]
  /\ UNCHANGED <<log, reqs, bundleVars>>

\* ConditionExpression 'attribute_not_exists(#userId) or command = :command'
ddbRollbackTransaction(k) ==
  /\ puts[k].rbW = "flight"
  /\ IF ddb[k] = NoItem \/ ddb[k].command = "rollback"
     THEN /\ ddb' = [ddb EXCEPT ![k] = RollbackItem(puts[k].tx)]
          /\ puts' = [puts EXCEPT ![k].rbW = "applied"]
     ELSE /\ ddb' = ddb
          /\ puts' = [puts EXCEPT ![k].rbW = "rejected"]
  /\ UNCHANGED <<log, reqs, bundleVars>>

\* ---- putTransaction after its await

\* The tasks of request r other than k have all resolved.
OthersResolved(r, k) ==
  \A j \in 1..Len(puts) : (puts[j].req = r /\ j # k) => puts[j].res = "ok"

\* putTransaction_then returning the length of the log, not the sequence
\* number pushTransaction gave the transaction.
putTransaction_then_returnsLength(k) ==
  /\ puts[k].pc = "put"
  /\ puts[k].insW = "applied"
  /\ log' = transactionPersistedToDdb(log, k - 1)
  /\ puts' = [puts EXCEPT ![k].pc = "done", ![k].res = "ok",
                          ![k].returned = Len(log)]
  /\ reqs' = LET r == puts[k].req
             IN IF reqs[r].resp = "pending" /\ OthersResolved(r, k)
                THEN [reqs EXCEPT ![r].resp = "OK",
                        ![r].sequenceNos = [i \in 1..reqs[r].count |->
                                              puts'[reqs[r].first + i].returned]]
                ELSE reqs
  /\ UNCHANGED <<ddb, bundleVars>>

\* putTransaction_then without the call of transactionPersistedToDdb.
putTransaction_then_unmarked(k) ==
  /\ puts[k].pc = "put"
  /\ puts[k].insW = "applied"
  /\ puts' = [puts EXCEPT ![k].pc = "done", ![k].res = "ok",
                          ![k].returned = puts[k].seqNo]
  /\ reqs' = LET r == puts[k].req
             IN IF reqs[r].resp = "pending" /\ OthersResolved(r, k)
                THEN [reqs EXCEPT ![r].resp = "OK",
                        ![r].sequenceNos = [i \in 1..reqs[r].count |->
                                              puts'[reqs[r].first + i].returned]]
                ELSE reqs
  /\ UNCHANGED <<log, ddb, bundleVars>>

\* putTransaction_then giving up a transaction whose request has been answered
\* with the error of another transaction of the batch.
putTransaction_then_skipsFailedBatch(k) ==
  /\ puts[k].pc = "put"
  /\ puts[k].insW = "applied"
  /\ log' = IF reqs[puts[k].req].resp = "Internal Server Error" THEN log
            ELSE transactionPersistedToDdb(log, k - 1)
  /\ puts' = [puts EXCEPT ![k].pc = "done", ![k].res = "ok",
                          ![k].returned = puts[k].seqNo]
  /\ reqs' = LET r == puts[k].req
             IN IF reqs[r].resp = "pending" /\ OthersResolved(r, k)
                THEN [reqs EXCEPT ![r].resp = "OK",
                        ![r].sequenceNos = [i \in 1..reqs[r].count |->
                                              puts'[reqs[r].first + i].returned]]
                ELSE reqs
  /\ UNCHANGED <<ddb, bundleVars>>

\* The put resolved: the slot is marked persisted and the sequence number is
\* returned; the handler answers once every promise of the request resolved.
putTransaction_then(k) ==
  /\ puts[k].pc = "put"
  /\ puts[k].insW = "applied"
  /\ log' = transactionPersistedToDdb(log, k - 1)
  /\ puts' = [puts EXCEPT ![k].pc = "done", ![k].res = "ok",
                          ![k].returned = puts[k].seqNo]
  /\ reqs' = LET r == puts[k].req
             IN IF reqs[r].resp = "pending" /\ OthersResolved(r, k)
                THEN [reqs EXCEPT ![r].resp = "OK",
                        ![r].sequenceNos = [i \in 1..reqs[r].count |->
                                              puts'[reqs[r].first + i].returned]]
                ELSE reqs
  /\ UNCHANGED <<ddb, bundleVars>>

\* putTransaction_catch awaiting the rollback: the error is not thrown when
\* the rollback is started.
putTransaction_catch_awaits(k) ==
  /\ puts[k].pc = "put"
  /\ puts' = [puts EXCEPT ![k].pc = "rollback", ![k].res = "failed",
                          ![k].rbW = "flight"]
  /\ UNCHANGED <<log, ddb, reqs, bundleVars>>

\* The put rejected (its write may be lost, still on its way, applied or
\* refused by the condition): the rollback is started and not awaited, the
\* error is thrown and the handler answers 500.
putTransaction_catch(k) ==
  /\ puts[k].pc = "put"
  /\ puts' = [puts EXCEPT ![k].pc = "rollback", ![k].res = "failed",
                          ![k].rbW = "flight"]
  /\ reqs' = IF reqs[puts[k].req].resp = "pending"
             THEN [reqs EXCEPT ![puts[k].req].resp = "Internal Server Error"]
             ELSE reqs
  /\ UNCHANGED <<log, ddb, bundleVars>>

\* ---- rollbackTransaction after its await

\* rollbackTransaction_then marking the rolled back transaction persisted.
rollbackTransaction_then_persisted(k) ==
  /\ puts[k].pc = "rollback"
  /\ puts[k].rbW = "applied"
  /\ log' = [log EXCEPT ![k].state = "Committed", ![k].command = "rollback"]
  /\ puts' = [puts EXCEPT ![k].pc = "done", ![k].rb = "ok"]
  /\ UNCHANGED <<ddb, reqs, bundleVars>>

\* rollbackTransaction_then marking the first transaction of the request,
\* not the transaction it was given.
rollbackTransaction_then_firstOfRequest(k) ==
  /\ puts[k].pc = "rollback"
  /\ puts[k].rbW = "applied"
  /\ log' = transactionRolledBack(log, reqs[puts[k].req].first)
  /\ puts' = [puts EXCEPT ![k].pc = "done", ![k].rb = "ok"]
  /\ UNCHANGED <<ddb, reqs, bundleVars>>

rollbackTransaction_then(k) ==
  /\ puts[k].pc = "rollback"
  /\ puts[k].rbW = "applied"
  /\ log' = transactionRolledBack(log, k - 1)
  /\ puts' = [puts EXCEPT ![k].pc = "done", ![k].rb = "ok"]
  /\ UNCHANGED <<ddb, reqs, bundleVars>>

\* rollbackTransaction_conflict taking the conflict for a rollback.
rollbackTransaction_conflict_rolledBack(k) ==
  /\ puts[k].pc = "rollback"
  /\ puts[k].rbW = "rejected"
  /\ log' = transactionRolledBack(log, k - 1)
  /\ puts' = [puts EXCEPT ![k].pc = "done", ![k].rb = "conflict"]
  /\ UNCHANGED <<ddb, reqs, bundleVars>>

\* e.name === 'ConditionalCheckFailedException'
rollbackTransaction_conflict(k) ==
  /\ puts[k].pc = "rollback"
  /\ puts[k].rbW = "rejected"
  /\ log' = transactionPersistedToDdb(log, k - 1)
  /\ puts' = [puts EXCEPT ![k].pc = "done", ![k].rb = "conflict"]
  /\ UNCHANGED <<ddb, reqs, bundleVars>>

\* Any other error: logged, nothing else.
rollbackTransaction_error(k) ==
  /\ puts[k].pc = "rollback"
  /\ puts' = [puts EXCEPT ![k].pc = "done", ![k].rb = "error"]
  /\ UNCHANGED <<log, ddb, reqs, bundleVars>>

\* ---- rollbackTransaction run a second time on the same transaction

\* rollbackTransaction (it is exported) is called once more with the
\* transaction of call k, while the run putTransaction started is under way
\* or after it: up to its await, the same conditional put is sent.
rollbackTransaction(k) ==
  /\ puts[k].res = "failed"
  /\ puts[k].rb2 = "none"
  /\ puts' = [puts EXCEPT ![k].rbW2 = "flight", ![k].rb2 = "run"]
  /\ UNCHANGED <<log, ddb, reqs, bundleVars>>

\* ddbRollbackTransaction2 with the condition of the put,
\* 'attribute_not_exists(#userId)' alone.
ddbRollbackTransaction2_notExists(k) ==
  /\ puts[k].rbW2 = "flight"
  /\ IF ddb[k] = NoItem
     THEN /\ ddb' = [ddb EXCEPT ![k] = RollbackItem(puts[k].tx)]
          /\ puts' = [puts EXCEPT ![k].rbW2 = "applied"]
     ELSE /\ ddb' = ddb
          /\ puts' = [puts EXCEPT ![k].rbW2 = "rejected"]
  /\ UNCHANGED <<log, reqs, bundleVars>>

\* The table's side of the second run's put.
ddbRollbackTransaction2(k) ==
  /\ puts[k].rbW2 = "flight"
  /\ IF ddb[k] = NoItem \/ ddb[k].command = "rollback"
     THEN /\ ddb' = [ddb EXCEPT ![k] = RollbackItem(puts[k].tx)]
          /\ puts' = [puts EXCEPT ![k].rbW2 = "applied"]
     ELSE /\ ddb' = ddb
          /\ puts' = [puts EXCEPT ![k].rbW2 = "rejected"]
  /\ UNCHANGED <<log, reqs, bundleVars>>

rollbackTransaction2_then(k) ==
  /\ puts[k].rb2 = "run"
  /\ puts[k].rbW2 = "applied"
  /\ log' = transactionRolledBack(log, k - 1)
  /\ puts' = [puts EXCEPT ![k].rb2 = "ok"]
  /\ UNCHANGED <<ddb, reqs, bundleVars>>

rollbackTransaction2_conflict(k) ==
  /\ puts[k].rb2 = "run"
  /\ puts[k].rbW2 = "rejected"
  /\ log' = transactionPersistedToDdb(log, k - 1)
  /\ puts' = [puts EXCEPT ![k].rb2 = "conflict"]
  /\ UNCHANGED <<ddb, reqs, bundleVars>>

rollbackTransaction2_error(k) ==
  /\ puts[k].rb2 = "run"
  /\ puts' = [puts EXCEPT ![k].rb2 = "error"]
  /\ UNCHANGED <<log, ddb, reqs, bundleVars>>

\* ------------------------------------------------------------ read path

\* queryTransactionLog taking the list past the user record's bundle-seq-no,
\* which an upload sets before it sets the watermark of the memcache.
queryTransactionLog_userRecord ==
  LET bundleSeqNo == memBundleSeqNo
      startingSeqNo == getStartingSeqNo(userBundleSeqNo)
      transactionLog == getTransactions(log, startingSeqNo)
  IN [bundleSeqNo |-> bundleSeqNo, transactionLog |-> transactionLog]

\* The response queryTransactionLog sends in the current state: the handler
\* has no await and changes nothing, so every state is a state in which a
\* query may run, and this is what it answers there.
queryTransactionLog ==
  LET bundleSeqNo == memBundleSeqNo
      startingSeqNo == getStartingSeqNo(bundleSeqNo)
      transactionLog == getTransactions(log, startingSeqNo)
  IN [bundleSeqNo |-> bundleSeqNo, transactionLog |-> transactionLog]

\* ------------------------------------------------------------ bundle lock

\* The lock module: the user's lock is live from its acquisition until it is
\* released or its lease (SECONDS_ALLOWED_TO_KEEP_BUNDLE_LOCK) runs out.
callerOwnsLock(lockId) == lock.live /\ lock.lockId = lockId

\* The lock acquireLock returns (a fresh lock id), or NoLock for none.
acquireLock ==
  IF lock.live THEN NoLock
  ELSE [lockId |-> Len(lockCalls) + 1, live |-> TRUE]

\* releaseLock clearing the user's lock whoever holds it.
releaseLock_unchecked(lockId) == NoLock

\* The lock after releaseLock(userId, lockId).
releaseLock(lockId) == IF callerOwnsLock(lockId) THEN NoLock ELSE lock

\* Time passes: the lease of the lock runs out.
LeaseExpires ==
  /\ lock.live
  /\ lock' = [lock EXCEPT !.live = FALSE]
  /\ UNCHANGED <<writeVars, memBundleSeqNo, userBundleSeqNo, s3, lockCalls, uploads>>

\* acquireBundleTransactionLogLock without the check of newLock: the id of
\* the lock that is held is sent.
acquireBundleTransactionLogLock_unchecked ==
  /\ LET newLock == acquireLock
     IN IF newLock = NoLock
        THEN /\ lockCalls' = Append(lockCalls, lock.lockId)
             /\ lock' = lock
        ELSE /\ lockCalls' = Append(lockCalls, newLock.lockId)
             /\ lock' = newLock
  /\ UNCHANGED <<writeVars, memBundleSeqNo, userBundleSeqNo, s3, uploads>>

\* lockCalls gets the lock id sent, or 0 for 'Failed to acquire lock'.
acquireBundleTransactionLogLock ==
  /\ LET newLock == acquireLock
     IN IF newLock = NoLock
        THEN /\ lockCalls' = Append(lockCalls, 0)
             /\ lock' = lock
        ELSE /\ lockCalls' = Append(lockCalls, newLock.lockId)
             /\ lock' = newLock
  /\ UNCHANGED <<writeVars, memBundleSeqNo, userBundleSeqNo, s3, uploads>>

\* lockId 0 is a missing lock id.
releaseBundleTransactionLogLock(lockId) ==
  /\ lock' = IF lockId = 0 THEN lock ELSE releaseLock(lockId)
  /\ UNCHANGED <<writeVars, memBundleSeqNo, userBundleSeqNo, s3, lockCalls, uploads>>

\* ------------------------------------------------------------ bundle path

Upload(bundleSeqNo, lockId, pc, resp) ==
  [pc |-> pc, bundleSeqNo |-> bundleSeqNo, lockId |-> lockId, user |-> -1,
   updW |-> "none", resp |-> resp]

\* bundleTransactionLog without the call of callerOwnsLock.
bundleTransactionLog_unowned(bundleSeqNo, lockId) ==
  /\ uploads' = Append(uploads,
        IF bundleSeqNo = 0 THEN Upload(0, 0, "done", "Bad Request")
        ELSE IF lockId = 0 THEN Upload(0, 0, "done", "Bad Request")
        ELSE Upload(bundleSeqNo, lockId, "find", "pending"))
  /\ UNCHANGED <<writeVars, memBundleSeqNo, userBundleSeqNo, s3, lock, lockCalls>>

\* bundleTransactionLog up to its first await.  bundleSeqNo 0 and lockId 0
\* are a missing parameter.  A call that is refused here keeps its answer only.
bundleTransactionLog(bundleSeqNo, lockId) ==
  /\ uploads' = Append(uploads,
        IF bundleSeqNo = 0 THEN Upload(0, 0, "done", "Bad Request")
        ELSE IF lockId = 0 THEN Upload(0, 0, "done", "Bad Request")
        ELSE IF ~callerOwnsLock(lockId)
             THEN Upload(0, 0, "done", "Unauthorized")
        ELSE Upload(bundleSeqNo, lockId, "find", "pending"))
  /\ UNCHANGED <<writeVars, memBundleSeqNo, userBundleSeqNo, s3, lock, lockCalls>>

\* bundleTransactionLog_user with > for >= in the check.
bundleTransactionLog_user_strict(u) ==
  /\ uploads[u].pc = "find"
  /\ uploads' =
       IF userBundleSeqNo > uploads[u].bundleSeqNo
       THEN [uploads EXCEPT ![u].pc = "done", ![u].user = userBundleSeqNo,
                            ![u].resp = "Bad Request"]
       ELSE [uploads EXCEPT ![u].pc = "s3", ![u].user = userBundleSeqNo]
  /\ UNCHANGED <<writeVars, memBundleSeqNo, userBundleSeqNo, s3, lock, lockCalls>>

\* findUserByUserId resolved: the check of the proposed number, then the
\* upload to S3 is started.
bundleTransactionLog_user(u) ==
  /\ uploads[u].pc = "find"
  /\ uploads' =
       IF userBundleSeqNo >= uploads[u].bundleSeqNo
       THEN [uploads EXCEPT ![u].pc = "done", ![u].user = userBundleSeqNo,
                            ![u].resp = "Bad Request"]
       ELSE [uploads EXCEPT ![u].pc = "s3", ![u].user = userBundleSeqNo]
  /\ UNCHANGED <<writeVars, memBundleSeqNo, userBundleSeqNo, s3, lock, lockCalls>>

\* s3.upload resolved: the update of the user's bundle-seq-no is sent.
bundleTransactionLog_uploaded(u) ==
  /\ uploads[u].pc = "s3"
  /\ s3' = s3 \cup {uploads[u].bundleSeqNo}
  /\ uploads' = [uploads EXCEPT ![u].pc = "update", ![u].updW = "flight"]
  /\ UNCHANGED <<writeVars, memBundleSeqNo, userBundleSeqNo, lock, lockCalls>>

\* The users table's side of the update: 'set #bundleSeqNo = :bundleSeqNo'.
ddbUpdateUser(u) ==
  /\ uploads[u].updW = "flight"
  /\ userBundleSeqNo' = uploads[u].bundleSeqNo
  /\ uploads' = [uploads EXCEPT ![u].updW = "applied"]
  /\ UNCHANGED <<writeVars, memBundleSeqNo, s3, lock, lockCalls>>

\* bundleTransactionLog_updated without the call of setBundleSeqNo.
bundleTransactionLog_updated_noMemcache(u) ==
  /\ uploads[u].pc = "update"
  /\ uploads[u].updW = "applied"
  /\ lock' = releaseLock(uploads[u].lockId)
  /\ uploads' = [uploads EXCEPT ![u].pc = "done", ![u].resp = "Success!"]
  /\ UNCHANGED <<writeVars, memBundleSeqNo, userBundleSeqNo, s3, lockCalls>>

\* The update resolved: the memcache watermark is set, the lock released.
bundleTransactionLog_updated(u) ==
  /\ uploads[u].pc = "update"
  /\ uploads[u].updW = "applied"
  /\ memBundleSeqNo' = uploads[u].bundleSeqNo
  /\ lock' = releaseLock(uploads[u].lockId)
  /\ uploads' = [uploads EXCEPT ![u].pc = "done", ![u].resp = "Success!"]
  /\ UNCHANGED <<writeVars, userBundleSeqNo, s3, lockCalls>>

\* An await rejected (findUserByUserId, s3.upload or the update, whose write
\* may still be applied, or the blob stored): the lock is released, 500.
bundleTransactionLog_catch(u, stored) ==
  /\ uploads[u].pc \in {"find", "s3", "update"}
  /\ s3' = IF uploads[u].pc = "s3" /\ stored
           THEN s3 \cup {uploads[u].bundleSeqNo} ELSE s3
  /\ lock' = releaseLock(uploads[u].lockId)
  /\ uploads' = [uploads EXCEPT ![u].pc = "done",
                                ![u].resp = "Internal Server Error"]
  /\ UNCHANGED <<writeVars, memBundleSeqNo, userBundleSeqNo, lockCalls>>

\* ------------------------------------------------------------ specification

\* Items metadata: a valid item, and one item for each check of the callback.
Metadata == {[byteLength |-> 1, itemId |-> "a"],
             [byteLength |-> 0, itemId |-> "a"],
             [byteLength |-> FOUR_HUNDRED_KB + 1, itemId |-> "a"],
             [byteLength |-> 1, itemId |-> ""]}
MetadataLists == UNION {[1..n -> Metadata] : n \in 0..MaxBatch}
\* A batch and its readableLength: the items do not matter when it is too long.
BatchInputs == (MetadataLists \X {1})
                 \cup {<<(<<[byteLength |-> 1, itemId |-> "a"]>>), BATCH_SIZE_LIMIT + 1>>}
ItemIdLists == UNION {[1..n -> ItemIds] : n \in 1..MaxBatch}

\* A write request arrives.
Receive(maxTx, maxReq) ==
  /\ Len(reqs) < maxReq
  /\ \/ \E i \in ItemIds, n \in ReadableLengths : insert(i, n)
     \/ \E i \in ItemIds : delete(i)
     \/ \E i \in ItemIds, n \in ReadableLengths : update(i, n)
     \/ \E b \in BatchInputs : batchInsert(b[1], b[2])
     \/ \E b \in BatchInputs : batchUpdate(b[1], b[2])
     \/ \E ids \in ItemIdLists : batchDelete(Len(ids), ids)
     \/ \E n \in {0, MAX_DELETIONS + 1} : batchDelete(n, <<>>)
  /\ Len(log') <= maxTx

\* A put or a rollback goes on.
Progress ==
  \E k \in 1..Len(puts) :
     \/ ddbPutTransaction(k)
     \/ ddbRollbackTransaction(k)
     \/ putTransaction_then(k)
     \/ putTransaction_catch(k)
     \/ rollbackTransaction_then(k)
     \/ rollbackTransaction_conflict(k)
     \/ rollbackTransaction_error(k)

WriteNext ==
  \/ Receive(MaxTx, MaxReq)
  \/ Progress

BundleNext ==
  \/ LeaseExpires
  \/ Len(lockCalls) < MaxLockCalls /\ acquireBundleTransactionLogLock
  \/ \E l \in 0..MaxLockCalls : releaseBundleTransactionLogLock(l)
  \/ /\ Len(uploads) < MaxUploads
     /\ \E n \in 0..MaxBundleSeqNo, l \in 0..MaxLockCalls : bundleTransactionLog(n, l)
  \/ \E u \in 1..Len(uploads) :
        \/ bundleTransactionLog_user(u)
        \/ bundleTransactionLog_uploaded(u)
        \/ ddbUpdateUser(u)
        \/ bundleTransactionLog_updated(u)
        \/ \E stored \in BOOLEAN : bundleTransactionLog_catch(u, stored)

Next ==
  \/ Receive(MaxTxB, MaxReqB)
  \/ Progress
  \/ BundleNext

\* The whole engine: the write path beside the bundle path.
Spec == Init /\ [][Next]_vars

\* The bundle path beside inserts that persist: the tail of the log that a
\* query returns past a watermark.
TailNext ==
  \/ Len(log) < MaxTail /\ insert("a", 1)
  \/ \E k \in 1..Len(puts) : ddbPutTransaction(k) \/ putTransaction_then(k)
  \/ BundleNext

TailSpec == Init /\ [][TailNext]_vars

\* The write path alone.
WriteSpec == Init /\ [][WriteNext]_vars

\* The write path of single inserts, with rollbackTransaction run a second
\* time on the transactions whose put failed.
RollbackNext ==
  \/ Len(log) < MaxRollbackTx /\ insert("a", 1)
  \/ Progress
  \/ \E k \in 1..Len(puts) :
        \/ rollbackTransaction(k)
        \/ ddbRollbackTransaction2(k)
        \/ rollbackTransaction2_then(k)
        \/ rollbackTransaction2_conflict(k)
        \/ rollbackTransaction2_error(k)

RollbackSpec == Init /\ [][RollbackNext]_vars

\* ------------------------------------------------------------ properties

\* The transaction of putTransaction call k as a query lists it.
Listed(k) ==
  [sequenceNo |-> puts[k].seqNo, itemId |-> puts[k].tx.itemId,
   command |-> puts[k].tx.command, record |-> puts[k].tx.record]

\* A query run now returns the transaction of call k at its sequence number.
Visible(k) ==
  LET q == queryTransactionLog
  IN \E i \in 1..Len(q.transactionLog) : q.transactionLog[i] = Listed(k)

RECURSIVE Flatten(_)
Flatten(rs) ==
  IF rs = <<>> THEN <<>> ELSE Head(rs).sequenceNos \o Flatten(Tail(rs))

\* The sequence numbers sent to callers so far, over all requests.
Returned == Flatten(reqs)

NoDuplicates(q) == \A i, j \in 1..Len(q) : i # j => q[i] # q[j]

AllAnswered == \A r \in 1..Len(reqs) : reqs[r].resp # "pending"

\* The submissions of the requests that were not answered Bad Request.
Accepted == {k \in 1..Len(puts) : reqs[puts[k].req].resp # "Bad Request"}

\* C1 as stated: once every request is answered, the sequence numbers
\* returned to callers are exactly 0 .. N-1, N the number of accepted
\* submissions (those whose put failed included), without duplicates.
C1_Original ==
  AllAnswered =>
    /\ NoDuplicates(Returned)
    /\ {Returned[i] : i \in 1..Len(Returned)} = 0..(Cardinality(Accepted) - 1)

\* C1 amended: the sequence numbers allocated to the putTransaction calls are
\* exactly 0 .. N-1, N the number of calls, one each in call order; the
\* numbers returned to callers have no duplicates and each is the number
\* allocated to a call of the answered request whose put succeeded (a call
\* whose put failed keeps its number and returns none).
C1_Amended ==
  /\ Len(log) = Len(puts)
  /\ \A k \in 1..Len(puts) : puts[k].seqNo = k - 1
  /\ NoDuplicates(Returned)
  /\ \A r \in 1..Len(reqs) :
       /\ reqs[r].resp = "OK" => Len(reqs[r].sequenceNos) = reqs[r].count
       /\ \A i \in 1..Len(reqs[r].sequenceNos) :
            LET k == reqs[r].first + i
            IN /\ puts[k].req = r
               /\ puts[k].res = "ok"
               /\ reqs[r].sequenceNos[i] = puts[k].seqNo

\* A put failed, and a later call returned its (larger) number.
C1_Witness ==
  \E k \in 1..Len(puts) : \E i \in 1..Len(Returned) :
    puts[k].res = "failed" /\ Returned[i] > puts[k].seqNo

\* C2 as stated: once putTransaction returned k, the slot is Committed and a
\* query observes the transaction at k with the submitted fields.
C2_Original ==
  \A k \in 1..Len(puts) :
    puts[k].res = "ok" => log[k].state = "Committed" /\ Visible(k)

\* C2 amended: once putTransaction returned k, slot k is Committed and holds
\* the submitted item id, command and record; a query returns that
\* transaction at k exactly while the memcache watermark is 0 or below k.
C2_Amended ==
  \A k \in 1..Len(puts) :
    puts[k].res = "ok" =>
      /\ puts[k].returned = k - 1
      /\ log[k].state = "Committed"
      /\ Item(log[k]) = Item(puts[k].tx)
      /\ Visible(k) <=> (memBundleSeqNo = 0 \/ memBundleSeqNo < puts[k].seqNo)

\* A returned transaction is listed by a query past a watermark.
C2_Witness ==
  \E k \in 1..Len(puts) :
    puts[k].res = "ok" /\ memBundleSeqNo >= 1 /\ Visible(k)

\* C3: when the put of sequence number k failed, a query never lists at k
\* anything but the transaction submitted for k, however the rollback ended.
C3_RollbackCompleteness ==
  \A k \in 1..Len(puts) :
    puts[k].res = "failed" =>
      LET q == queryTransactionLog
      IN \A i \in 1..Len(q.transactionLog) :
           q.transactionLog[i].sequenceNo = puts[k].seqNo
             => q.transactionLog[i] = Listed(k)

\* A failed put whose rollback met the conflict is listed by a query.
C3_Witness ==
  \E k \in 1..Len(puts) :
    puts[k].res = "failed" /\ puts[k].rb = "conflict" /\ Visible(k)

Succeeded == {u \in 1..Len(uploads) : uploads[u].resp = "Success!"}
Succeeds(u) == uploads[u].resp # "Success!" /\ uploads'[u].resp = "Success!"
Max(S) == CHOOSE x \in S : \A y \in S : y <= x

Checks(u) == uploads[u].pc = "find" /\ uploads'[u].pc \in {"s3", "done"}
               /\ uploads'[u].resp # "Internal Server Error"
\* The update of upload u reaches the users table in this step.
Writes(u) == uploads[u].updW = "flight" /\ uploads'[u].updW = "applied"

C5_Check ==
  \A u \in 1..Len(uploads) :
    Checks(u) =>
      /\ uploads'[u].resp = "Bad Request"
           <=> userBundleSeqNo >= uploads[u].bundleSeqNo
      /\ uploads'[u].pc = "s3" => uploads[u].bundleSeqNo > uploads'[u].user
      /\ uploads'[u].user = userBundleSeqNo

\* C5 as stated: an upload proposing a number the user record has reached is
\* answered Bad Request, an accepted upload writes a number above the one the
\* record holds, and the user record's bundleSeqNo never decreases.
C5_Original ==
  [][/\ C5_Check
     /\ \A u \in 1..Len(uploads) :
          Writes(u) => uploads[u].bundleSeqNo > userBundleSeqNo
     /\ userBundleSeqNo' >= userBundleSeqNo]_vars

\* C5 amended: an upload proposing a number the user record has reached when
\* it is checked is answered Bad Request, and an accepted upload writes a
\* number above the one it read at its check; the user record's bundleSeqNo
\* decreases only by the write of an upload that overlapped another one (the
\* record changed between its check and its write).
C5_Amended ==
  [][/\ C5_Check
     /\ \A u \in 1..Len(uploads) :
          Writes(u) => /\ userBundleSeqNo' = uploads[u].bundleSeqNo
                       /\ uploads[u].bundleSeqNo > uploads[u].user
     /\ userBundleSeqNo' # userBundleSeqNo
          => \E u \in 1..Len(uploads) : Writes(u)
     /\ userBundleSeqNo' < userBundleSeqNo
          => \E u \in 1..Len(uploads) :
               Writes(u) /\ uploads[u].user # userBundleSeqNo]_vars

\* An upload succeeded and a later one with the same number got Bad Request.
C5_Witness ==
  \E u \in Succeeded : \E v \in 1..Len(uploads) :
    /\ uploads[v].resp = "Bad Request"
    /\ uploads[v].bundleSeqNo = uploads[u].bundleSeqNo
    /\ uploads[v].user = uploads[u].bundleSeqNo

\* C6 as stated: a request answered Bad Request allocated no sequence number
\* and attempted no durable write.
C6_Claim ==
  \A r \in 1..Len(reqs) :
    reqs[r].resp = "Bad Request" =>
      /\ reqs[r].count = 0
      /\ \A k \in 1..Len(puts) : puts[k].req # r

\* The lock ids sent by the acquire calls.
Handed == {lockCalls[i] : i \in 1..Len(lockCalls)} \ {0}

C7_Inv ==
  /\ \A i, j \in 1..Len(lockCalls) :
       (i # j /\ lockCalls[i] # 0) => lockCalls[i] # lockCalls[j]
  /\ Cardinality({l \in Handed : callerOwnsLock(l)}) <= 1
  /\ lock.live => lock.lockId \in Handed

C7_Step ==
  Len(lockCalls') > Len(lockCalls) =>
    LET id == lockCalls'[Len(lockCalls')]
    IN IF lock.live
       THEN id = 0 /\ lock' = lock
       ELSE id # 0 /\ lock'.live /\ lock'.lockId = id

\* C7: the lock ids sent are pairwise different and at most one of them owns
\* the lock; an acquire call made while the lock is live is sent none and
\* leaves the lock, and one made while no lock is live (none taken, released
\* or expired) is sent the id that owns the lock from then on.
C7_OneLiveLock == []C7_Inv /\ [][C7_Step]_vars

\* A call got the lock, the next one none, and the one after the release the
\* lock again.
C7_Witness ==
  /\ Len(lockCalls) = 3
  /\ lockCalls[1] # 0 /\ lockCalls[2] = 0 /\ lockCalls[3] # 0
  /\ callerOwnsLock(lockCalls[3])

\* C8 as stated: a putTransaction call that has run to its end (its put, and
\* its rollback if any, have settled) left its slot Committed or RolledBack.
C8_Claim ==
  \A k \in 1..Len(puts) :
    puts[k].pc = "done" => log[k].state \in {"Committed", "RolledBack"}

C10_Inv ==
  /\ \A r \in 1..Len(reqs) :
       reqs[r].resp \in {"pending", "OK", "Bad Request", "Internal Server Error"}
  /\ \A k \in 1..Len(puts) :
       /\ puts[k].pc = "put" <=> puts[k].res = "none"
       /\ puts[k].res = "failed" =>
            reqs[puts[k].req].resp \in {"Internal Server Error", "Bad Request"}

C10_Step ==
  /\ \A r \in 1..Len(reqs) : reqs[r].resp # "pending" => reqs'[r] = reqs[r]
  /\ (\E k \in 1..Len(puts) : puts[k].pc = "rollback" /\ puts'[k].pc = "done")
       => reqs' = reqs

ListedNos ==
  LET q == queryTransactionLog
  IN [i \in 1..Len(q.transactionLog) |-> q.transactionLog[i].sequenceNo]

C11_Inv ==
  /\ \A j, k \in 1..Len(puts) :
       (j < k => puts[j].seqNo < puts[k].seqNo)
         /\ (puts[j].req < puts[k].req => puts[j].seqNo < puts[k].seqNo)
  /\ \A r \in 1..Len(reqs) :
       reqs[r].resp = "OK" =>
         /\ Len(reqs[r].sequenceNos) = reqs[r].count
         /\ \A i \in 1..reqs[r].count :
              /\ reqs[r].sequenceNos[i] = reqs[r].first + i - 1
              /\ Item(log[reqs[r].sequenceNos[i] + 1])
                   = Item(puts[reqs[r].first + i].tx)
  /\ \A i, j \in 1..Len(ListedNos) : i < j => ListedNos[i] < ListedNos[j]
  /\ \A k \in 1..Len(puts) : Visible(k) => log[k].state = "Committed"

C11_Step ==
  /\ \A j \in 1..Len(puts) : puts'[j].seqNo = puts[j].seqNo
  /\ \A k \in (Len(puts) + 1)..Len(puts') : \A j \in 1..Len(puts) :
       puts'[k].seqNo > puts[j].seqNo

\* C11: the putTransaction calls get increasing sequence numbers in the
\* order they are made (a call made after another has allocated its slot,
\* in the same request or in a later one, gets a larger number, and a number
\* once given never changes); the i-th number a batch is answered with is the
\* number of its i-th item, first + i - 1 for a batch that started at first,
\* and that slot holds the i-th item; a query lists the transactions in
\* increasing order of their numbers.
C11_InitiationOrder == []C11_Inv /\ [][C11_Step]_vars

\* A batch of two different items, received after another request, is
\* answered with consecutive numbers and a query lists both items.
C11_Witness ==
  \E r \in 1..Len(reqs) :
    /\ reqs[r].resp = "OK" /\ reqs[r].count = 2 /\ reqs[r].first >= 1
    /\ puts[reqs[r].first + 1].tx.itemId # puts[reqs[r].first + 2].tx.itemId
    /\ reqs[r].sequenceNos = <<reqs[r].first, reqs[r].first + 1>>
    /\ Visible(reqs[r].first + 1) /\ Visible(reqs[r].first + 2)

C12_Inv ==
  \A k \in 1..Len(puts) :
    puts[k].res = "failed" =>
      /\ reqs[puts[k].req].resp \in {"Internal Server Error", "Bad Request"}
      /\ reqs[puts[k].req].sequenceNos = <<>>
      /\ \A j \in 1..Len(puts) :
           (puts[j].req = puts[k].req /\ puts[j].res = "ok") =>
             /\ log[j].state = "Committed"
             /\ ddb[j] = Item(puts[j].tx)
             /\ Visible(j)

C12_Step ==
  \A k \in 1..Len(puts) :
    (puts'[k].res = "failed" /\ puts'[k] # puts[k]) =>
      \A j \in 1..Len(puts) :
        j # k => log'[j] = log[j] /\ ddb'[j] = ddb[j] /\ puts'[j] = puts[j]

\* C12: a request one of whose puts failed is answered with an error and with
\* no sequence numbers; every other transaction of the request whose put
\* succeeded, before or after that answer, is Committed, durable and listed
\* by a query; no step of the failed transaction (its failure, its writes
\* reaching the table, its rollback) changes
\* the slot, the durable record or the call of another transaction.
C12_BatchPartialFailure == []C12_Inv /\ [][C12_Step]_vars

\* A batch answered with the error of one transaction, whose other
\* transaction is Committed; the failed one was rolled back.
C12_Witness ==
  \E j, k \in 1..Len(puts) :
    /\ j # k /\ puts[j].req = puts[k].req
    /\ puts[k].res = "failed" /\ puts[k].rb = "ok"
    /\ puts[j].res = "ok" /\ log[j].state = "Committed" /\ Visible(j)
    /\ reqs[puts[k].req].resp = "Internal Server Error"

\* Upload u, let in as the owner of its lock, ends in failure in this step.
Fails(u) ==
  /\ uploads[u].pc # "done" /\ uploads'[u].pc = "done"
  /\ uploads'[u].resp \in {"Bad Request", "Internal Server Error"}

\* C13 as stated: when an upload of the owner of the lock ends in failure
\* (its number refused, the user lookup, the blob upload or the update of the
\* user record failed), the failure is answered and the lock is released in
\* the same step: the caller's lock id does not own the lock afterwards.
C13_Claim ==
  [][\A u \in 1..Len(uploads) :
       Fails(u) => ~(lock'.live /\ lock'.lockId = uploads[u].lockId)]_vars

\* C14 as stated: a bundle watermark that is set, in the memcache or on the
\* user record, is at most the sequence number of some Committed slot.
C14_Claim ==
  \A w \in {memBundleSeqNo, userBundleSeqNo} :
    w # 0 => \E k \in 1..Len(log) : log[k].state = "Committed" /\ w <= k - 1

\* C15: a query lists at sequence number k only a slot that is Committed,
\* whose put succeeded or whose rollback met the conflict, and whose
\* transaction the table holds; it lists no slot that is Pending (put or
\* rollback under way, or rollback failed) or RolledBack.
C15_OnlyCommittedVisible ==
  LET q == queryTransactionLog
  IN /\ \A i \in 1..Len(q.transactionLog) :
          LET k == q.transactionLog[i].sequenceNo + 1
          IN /\ k \in 1..Len(log)
             /\ log[k].state = "Committed"
             /\ puts[k].res = "ok" \/ puts[k].rb = "conflict"
             /\ puts[k].insW = "applied"
             /\ ddb[k] = Item(puts[k].tx)
             /\ q.transactionLog[i] = Listed(k)
     /\ \A k \in 1..Len(log) :
          log[k].state \in {"Pending", "RolledBack"} => ~Visible(k)

\* Of three slots one is Pending, one RolledBack and one Committed, and a
\* query lists the Committed one alone.
C15_Witness ==
  /\ \E k \in 1..Len(log) : log[k].state = "Pending" /\ puts[k].pc = "put"
  /\ \E k \in 1..Len(log) : log[k].state = "RolledBack"
  /\ \E k \in 1..Len(log) : log[k].state = "Committed" /\ Visible(k)
  /\ Len(queryTransactionLog.transactionLog) = 1

\* C16: the table holds the submitted transaction at every slot that is
\* Committed, and the Rollback record at every slot that is RolledBack,
\* whenever the writes of the put and of the rollback reach the table.
C16_MemoryDurableAgreement ==
  \A k \in 1..Len(log) :
    /\ log[k].state = "Committed" =>
         ddb[k] = Item(puts[k].tx) /\ ddb[k].command # "rollback"
    /\ log[k].state = "RolledBack" =>
         ddb[k] = RollbackItem(puts[k].tx) /\ ddb[k].command = "rollback"

\* The write of the failed put reached the table after the rollback's write
\* and after the slot was marked RolledBack.
C16_Witness ==
  \E k \in 1..Len(log) :
    /\ log[k].state = "RolledBack" /\ puts[k].insW = "rejected"
    /\ ddb[k].command = "rollback"

\* C17: a slot that is Committed or RolledBack never changes again, neither
\* its state nor its fields.
C17_TerminalStates ==
  [][\A k \in 1..Len(log) :
       log[k].state \in {"Committed", "RolledBack"} => log'[k] = log[k]]_vars

\* Every call has run to its end: a slot is Committed by its put, another by
\* the conflict of its rollback, and a third is RolledBack after the late
\* write of its put was refused.
C17_Witness ==
  /\ \A k \in 1..Len(puts) : puts[k].pc = "done"
  /\ \E k \in 1..Len(log) : log[k].state = "Committed" /\ puts[k].res = "ok"
  /\ \E k \in 1..Len(log) : log[k].state = "Committed" /\ puts[k].rb = "conflict"
  /\ \E k \in 1..Len(log) : log[k].state = "RolledBack" /\ puts[k].insW = "rejected"

\* C20: a record of the table whose command is not Rollback never changes;
\* a record is written where none exists, and a Rollback record also over a
\* Rollback record.
C20_DurableRecordKept ==
  [][\A k \in 1..Len(ddb) :
       /\ ddb[k].command \notin {"none", "rollback"} => ddb'[k] = ddb[k]
       /\ ddb'[k] # ddb[k] =>
            /\ ddb[k] = NoItem
            /\ ddb'[k] \in {Item(puts[k].tx), RollbackItem(puts[k].tx)}]_vars

\* The table refused the write of a rollback over the transaction it holds.
C20_Witness ==
  \E k \in 1..Len(ddb) :
    /\ puts[k].rbW = "rejected" /\ puts[k].insW = "applied"
    /\ ddb[k] = Item(puts[k].tx) /\ ddb[k].command \notin {"none", "rollback"}

\* The Committed sequence numbers from sequence number n on.
CommittedFrom(n) ==
  {k - 1 : k \in {j \in 1..Len(log) : log[j].state = "Committed" /\ j - 1 >= n}}

\* C19 as stated: a query advertising watermark w lists no transaction with
\* a sequence number at or below w, and every Committed one above w.
C19_Original ==
  LET q == queryTransactionLog
  IN {ListedNos[i] : i \in 1..Len(ListedNos)} = CommittedFrom(q.bundleSeqNo + 1)

\* C19 amended: a query advertises the watermark of the memcache and lists,
\* in order and with their fields, exactly the Committed transactions of the
\* same state past it: those above w when w >= 1, and all of them, sequence
\* number 0 included, when w = 0 (no bundle).
C19_Amended ==
  LET q == queryTransactionLog
      w == q.bundleSeqNo
  IN /\ w = memBundleSeqNo
     /\ {ListedNos[i] : i \in 1..Len(ListedNos)}
          = CommittedFrom(IF w = 0 THEN 0 ELSE w + 1)
     /\ \A i, j \in 1..Len(ListedNos) : i < j => ListedNos[i] < ListedNos[j]
     /\ \A i \in 1..Len(ListedNos) :
          /\ w >= 1 => ListedNos[i] > w
          /\ Item(q.transactionLog[i]) = Item(log[ListedNos[i] + 1])

\* A query runs between the two steps of an upload (the user record is set,
\* the watermark of the memcache not yet) and lists the tail past the
\* watermark of an earlier upload.
C19_Witness ==
  /\ memBundleSeqNo >= 1
  /\ userBundleSeqNo > memBundleSeqNo
  /\ \E u \in 1..Len(uploads) : uploads[u].pc = "update"
  /\ Len(log) > userBundleSeqNo /\ log[Len(log)].state = "Committed"
  /\ log[1].state = "Committed" /\ ~Visible(1)
  /\ Len(queryTransactionLog.transactionLog) >= 1

C18_Inv ==
  \A k \in 1..Len(puts) :
    /\ (puts[k].rb = "ok" \/ puts[k].rb2 = "ok") =>
         /\ log[k].state = "RolledBack" /\ log[k].command = "rollback"
         /\ ddb[k] = RollbackItem(puts[k].tx)
         /\ puts[k].rb # "conflict" /\ puts[k].rb2 # "conflict"
    /\ (puts[k].rb = "conflict" \/ puts[k].rb2 = "conflict") =>
         /\ log[k].state = "Committed" /\ Item(log[k]) = Item(puts[k].tx)
         /\ ddb[k] = Item(puts[k].tx)

C18_Step ==
  \A k \in 1..Len(puts) :
    (puts[k].rb \in {"ok", "conflict"} \/ puts[k].rb2 \in {"ok", "conflict"})
      => log'[k] = log[k] /\ ddb'[k] = ddb[k]

\* C18: when rollbackTransaction runs twice on a transaction, one run after
\* the other or both at once, the two runs end the same way unless one ends
\* with another error: once a run wrote Rollback the record is the Rollback
\* record and the slot RolledBack, once a run met the conflict the record is
\* the transaction and the slot Committed, and nothing the other run does
\* afterwards (its write reaching the table, its end) changes the record or
\* the slot.
C18_IdempotentRollback == []C18_Inv /\ [][C18_Step]_vars

\* Both runs have ended for two transactions: the two runs wrote Rollback
\* for one, and met the conflict for the other.
C18_Witness ==
  /\ \E k \in 1..Len(puts) : puts[k].rb = "ok" /\ puts[k].rb2 = "ok"
  /\ \E k \in 1..Len(puts) : puts[k].rb = "conflict" /\ puts[k].rb2 = "conflict"

\* C21: a bundleTransactionLog call given a bundle sequence number and a
\* lock id that does not own the user's lock (never handed out, released,
\* expired, or replaced by a newer lock) is answered Unauthorized and changes
\* neither the blob store, the user record, the watermark of the memcache
\* nor the lock; the call has ended, so no later step of it changes them
\* either; a call that goes on to the upload owned the lock when it came.
C21_UnauthorizedFrame ==
  [][/\ \A n \in 1..MaxBundleSeqNo, l \in 1..MaxLockCalls :
          (~callerOwnsLock(l) /\ bundleTransactionLog(n, l)) =>
            /\ uploads'[Len(uploads')].resp = "Unauthorized"
            /\ uploads'[Len(uploads')].pc = "done"
            /\ UNCHANGED <<s3, userBundleSeqNo, memBundleSeqNo, lock, writeVars>>
     /\ Len(uploads') > Len(uploads) =>
          (uploads'[Len(uploads')].pc # "done"
             => callerOwnsLock(uploads'[Len(uploads')].lockId))
     /\ \A u \in 1..Len(uploads) :
          uploads[u].resp = "Unauthorized" => uploads'[u] = uploads[u]]_vars

\* After an upload succeeded and while a newer lock is held, a call was
\* answered Unauthorized; the blob, the user record and the watermark are
\* those of the upload that succeeded.
C21_Witness ==
  /\ Len(uploads) = 2
  /\ uploads[1].resp = "Success!" /\ uploads[2].resp = "Unauthorized"
  /\ lock.live /\ lock.lockId # uploads[1].lockId
  /\ s3 = {uploads[1].bundleSeqNo}
  /\ userBundleSeqNo = uploads[1].bundleSeqNo
  /\ memBundleSeqNo = uploads[1].bundleSeqNo

\* Upload u comes to its end in this step.
Ends(u) == uploads[u].pc # "done" /\ uploads'[u].pc = "done"

\* C22: when an upload comes to its end (success, refusal or error) while the
\* user's lock is live under another lock id than the upload's, the lock is
\* left as it is and its holder still owns it.
C22_ForeignLockKept ==
  [][\A u \in 1..Len(uploads) :
       (Ends(u) /\ lock.live /\ lock.lockId # uploads[u].lockId) =>
         /\ lock' = lock
         /\ lock'.live /\ lock'.lockId = lock.lockId]_vars

\* An upload succeeded while a newer lock was held: the holder of the lock
\* that is live made its own call, whose check read the user record before
\* the first upload's update, and still owns the lock.
C22_Witness ==
  \E u, v \in 1..Len(uploads) :
    /\ uploads[u].resp = "Success!"
    /\ uploads[v].lockId # uploads[u].lockId
    /\ callerOwnsLock(uploads[v].lockId)
    /\ uploads[v].user # -1 /\ uploads[v].user < uploads[u].bundleSeqNo

\* C23 as stated, for the uploads none of whose awaits failed: whenever no
\* bundleTransactionLog call is under way, the watermark of the memcache
\* equals the user record's bundle-seq-no.
C23_Claim ==
  (\A u \in 1..Len(uploads) :
      uploads[u].pc = "done" /\ uploads[u].resp # "Internal Server Error")
    => memBundleSeqNo = userBundleSeqNo

====
